---- MODULE Spec2Model ----
(***************************************************************************)
(* tools/prepare_sfm.py: conversion of an SfM export (sfm.json) into a     *)
(* point-cloud file and a train/val split of per-image camera records.     *)
(*                                                                         *)
(* Two specifications:                                                     *)
(*   Spec    runs of convert_sfm_to_parquet (one per element of Runs) on   *)
(*           one sfm.json document, a step per statement that can raise;   *)
(*   FnSpec  single calls of prepare_rototranslation / prepare_intrinsic   *)
(*           on an argument drawn from a bounded set.                      *)
(*                                                                         *)
(* Floats are modelled by the integer they denote.  A JSON scalar is a     *)
(* record [k, v]: k = "num" a JSON number, "numstr" a JSON string holding  *)
(* numeric text, "text" a JSON string float() rejects, "bool" JSON true.   *)
(***************************************************************************)
EXTENDS Integers, Sequences, FiniteSets, TLC

VARIABLES sfm, pc, error, trace, pd_structure, images, poses, intrinsic,
          list_images, train, val, files, call

vars == <<sfm, pc, error, trace, pd_structure, images, poses, intrinsic,
          list_images, train, val, files, call>>

(* ------------------------------ bounds -------------------------------- *)
MaxPoints == 2
MaxViews == 2
MaxPoses == 2
MaxRotation == 10
MaxCenter == 4

Runs == {1, 2}

(* ------------------------------ scalars ------------------------------- *)
Num(v) == [k |-> "num", v |-> v]
NumStr(v) == [k |-> "numstr", v |-> v]
Text(v) == [k |-> "text", v |-> v]
Bool(v) == [k |-> "bool", v |-> v]

Ok(x) == [ok |-> TRUE, val |-> x, err |-> "none"]
Raise(e) == [ok |-> FALSE, val |-> <<>>, err |-> e]

\* float(x): a number or numeric text converts, any other text raises.
\* (float(True) is never reached: a bool does not survive json.loads below.)
float(s) ==
  IF s.k \in {"num", "numstr"} THEN Ok(s.v) ELSE Raise("ValueError")

AllFloat(seq) == \A i \in 1..Len(seq) : float(seq[i]).ok

SeqUpTo(S, n) == UNION {[1..m -> S] : m \in 0..n}

(* ----------------------------- sfm.json ------------------------------- *)
PointSamples ==
  { [X |-> <<Num(1), Num(2), Num(3)>>],
    [X |-> <<NumStr(4), NumStr(5), NumStr(6)>>],
    [X |-> <<Num(7), Text(0), Num(9)>>] }

ViewSamples ==
  { [poseId |-> 1, path |-> "a.jpg", height |-> NumStr(10), width |-> NumStr(20)],
    [poseId |-> 1, path |-> "b.jpg", height |-> NumStr(30), width |-> NumStr(40)],
    [poseId |-> 2, path |-> "c.jpg", height |-> Num(50), width |-> Num(60)] }

SampleValue(kind, v) == IF kind = "num" THEN Num(v) ELSE NumStr(v)

\* rotation / center lists: n values base+1 .. base+n, all numbers or all
\* numeric strings, optionally with a non-numeric string at position bad.
ValueList(n, base, kind, bad) ==
  [i \in 1..n |-> IF i = bad THEN Text(0) ELSE SampleValue(kind, base + i)]

RotationSamples ==
  { ValueList(n, 10, kind, bad) :
      n \in 0..MaxRotation, kind \in {"num", "numstr"}, bad \in {0, 5} }

CenterSamples ==
  { ValueList(n, 30, kind, bad) :
      n \in 0..MaxCenter, kind \in {"num", "numstr"}, bad \in {0, 2} }

LockedSamples == { NumStr(1), Bool(1) }

PoseValues ==
  [ transform : [rotation : RotationSamples, center : CenterSamples],
    locked : LockedSamples ]

GoodPose ==
  [ transform |-> [rotation |-> ValueList(9, 10, "numstr", 0),
                   center |-> ValueList(3, 30, "numstr", 0)],
    locked |-> NumStr(1) ]

PoseSamples ==
  { [poseId |-> 1, pose |-> GoodPose], [poseId |-> 3, pose |-> GoodPose] }

I1 == [principalPoint |-> <<<<Num(100), Num(50)>>>>, focalLength |-> <<Num(800)>>]
I2 == [principalPoint |-> <<<<NumStr(90), NumStr(40)>>>>, focalLength |-> <<NumStr(700)>>]

IntrinsicLists == { <<I1>>, <<I2, I1>> }

Documents ==
  [ structure : SeqUpTo(PointSamples, MaxPoints),
    views : SeqUpTo(ViewSamples, MaxViews),
    poses : SeqUpTo(PoseSamples, MaxPoses),
    intrinsics : IntrinsicLists ]

(* --------------------------- extrapolate_json ------------------------- *)
\* pd.DataFrame(rows, columns=[...]): a frame is its column labels, its index
\* labels and its rows.
DataFrame(rows, columns) ==
  [columns |-> columns, index |-> [i \in 1..Len(rows) |-> i - 1], rows |-> rows]

NoFrame == [columns |-> <<>>, index |-> <<>>, rows |-> <<>>]

Labels(frame) == {frame.columns[i] : i \in 1..Len(frame.columns)}

\* .astype(float): every cell converted, ValueError if one cannot be.
astype_float(frame) ==
  IF \A i \in 1..Len(frame.rows) : AllFloat(frame.rows[i])
  THEN Ok([frame EXCEPT !.rows =
             [i \in 1..Len(frame.rows) |->
                [j \in 1..Len(frame.rows[i]) |-> float(frame.rows[i][j]).val]]])
  ELSE Raise("ValueError")

\* pd.DataFrame(list of dicts): the columns are the dicts' keys; an empty
\* list gives a frame without columns.
RecordFrame(recs, columns) ==
  DataFrame(recs, IF recs = <<>> THEN <<>> ELSE columns)

\* A mutation of set_index: a mapping keyed by the label, in which a later
\* row with a label replaces the earlier one.
set_index_keep_last(frame, key) ==
  IF key \notin Labels(frame) THEN Raise("KeyError")
  ELSE LET kept == SelectSeq(frame.rows,
                     LAMBDA row : row = frame.rows[
                        CHOOSE i \in 1..Len(frame.rows) :
                          /\ frame.rows[i].poseId = row.poseId
                          /\ \A j \in (i + 1)..Len(frame.rows) :
                               frame.rows[j].poseId # row.poseId])
       IN  Ok([columns |-> SelectSeq(frame.columns, LAMBDA c : c # key),
               index |-> [i \in 1..Len(kept) |-> kept[i].poseId],
               rows |-> [i \in 1..Len(kept) |->
                           [path |-> kept[i].path,
                            height |-> kept[i].height,
                            width |-> kept[i].width]]])

\* .set_index(key): the key column becomes the index, row order and every
\* row kept (verify_integrity is off: equal labels stay side by side);
\* KeyError when the frame has no such column.
set_index(frame, key) ==
  IF key \notin Labels(frame) THEN Raise("KeyError")
  ELSE Ok([columns |-> SelectSeq(frame.columns, LAMBDA c : c # key),
           index |-> [i \in 1..Len(frame.rows) |-> frame.rows[i].poseId],
           rows |-> [i \in 1..Len(frame.rows) |->
                       [path |-> frame.rows[i].path,
                        height |-> frame.rows[i].height,
                        width |-> frame.rows[i].width]]])

Tables(s, v, p, i) == [structure |-> s, views |-> v, poses |-> p, intrinsics |-> i]

extrapolate_json(data) ==
  LET structure == astype_float(
                     DataFrame([i \in 1..Len(data.structure) |-> data.structure[i].X],
                               <<"x", "y", "z">>))
      views == set_index(RecordFrame(data.views,
                           <<"poseId", "path", "height", "width">>), "poseId")
      poses_ == RecordFrame(data.poses, <<"poseId", "pose">>)
      intrinsics == RecordFrame(data.intrinsics, <<"principalPoint", "focalLength">>)
  IN  IF ~structure.ok THEN Raise(structure.err)
      ELSE IF ~views.ok THEN Raise(views.err)
      ELSE Ok(Tables(structure.val, views.val, poses_, intrinsics))

\* frame[key]: the column labelled key, KeyError when there is none.
getitem(frame, key) ==
  IF key \in Labels(frame)
  THEN Ok([i \in 1..Len(frame.rows) |->
             frame.rows[i][CHOOSE j \in 1..Len(frame.columns) : frame.columns[j] = key]])
  ELSE Raise("KeyError")

\* images.loc[id]: the rows labelled id: one row comes back as a Series,
\* several as a DataFrame, none raises KeyError.
loc(frame, id) ==
  LET hits == SelectSeq([i \in 1..Len(frame.rows) |->
                           [label |-> frame.index[i], row |-> frame.rows[i]]],
                        LAMBDA h : h.label = id)
      rows == [i \in 1..Len(hits) |-> hits[i].row]
  IN  IF Len(hits) = 0 THEN [kind |-> "KeyError", rows |-> rows]
      ELSE IF Len(hits) = 1 THEN [kind |-> "Series", rows |-> rows]
      ELSE [kind |-> "DataFrame", rows |-> rows]

(* --------------------------- prepare_intrinsic ------------------------ *)
\* x[i] on a Python list (i counted from 0): IndexError past the end.
item(seq, i) == IF i < Len(seq) THEN Ok(seq[i + 1]) ELSE Raise("IndexError")

\* float(x[i][j]) / float(x[i]), the first failure propagating.
float_at2(seq, i, j) ==
  LET a == item(seq, i)
      b == IF a.ok THEN item(a.val, j) ELSE a
  IN  IF b.ok THEN float(b.val) ELSE b

float_at(seq, i) ==
  LET a == item(seq, i) IN IF a.ok THEN float(a.val) ELSE a

prepare_intrinsic(record) ==
  LET cx == float_at2(record.principalPoint, 0, 0)
      cy == float_at2(record.principalPoint, 0, 1)
      f == float_at(record.focalLength, 0)
      s == 0
  IN  IF ~cx.ok THEN cx
      ELSE IF ~cy.ok THEN cy
      ELSE IF ~f.ok THEN f
      ELSE Ok(<< <<f.val, s, cx.val>>,
                 <<0, f.val, cy.val>>,
                 <<0, 0, 1>> >>)

(* ------------------------ prepare_rototranslation --------------------- *)
\* The text of str(x) / json.dumps-like forms is kept at the level of its
\* lexemes: a scalar's lexeme is a number, a single-quoted or double-quoted
\* string literal (with the kind of text it holds) or the word True; the
\* brackets, braces, commas and colons are the same in Python's repr and in
\* JSON, so the nesting is kept as it is.
repr(s) ==
  IF s.k = "num" THEN [lex |-> "number", k |-> s.k, v |-> s.v]
  ELSE IF s.k = "bool" THEN [lex |-> "True", k |-> s.k, v |-> s.v]
  ELSE [lex |-> "squoted", k |-> s.k, v |-> s.v]

\* str(dict): keys and string values in single quotes.
str(pose) ==
  [ keys |-> "squoted",
    rotation |-> [i \in 1..Len(pose.transform.rotation) |-> repr(pose.transform.rotation[i])],
    center |-> [i \in 1..Len(pose.transform.center) |-> repr(pose.transform.center[i])],
    locked |-> repr(pose.locked) ]

\* .replace("'", "\""): every single quote becomes a double quote.
requote(l) == IF l.lex = "squoted" THEN [l EXCEPT !.lex = "dquoted"] ELSE l

replace(text) ==
  [ keys |-> IF text.keys = "squoted" THEN "dquoted" ELSE text.keys,
    rotation |-> [i \in 1..Len(text.rotation) |-> requote(text.rotation[i])],
    center |-> [i \in 1..Len(text.center) |-> requote(text.center[i])],
    locked |-> requote(text.locked) ]

\* json.loads: numbers and double-quoted strings are JSON; a single-quoted
\* string and the word True are not.
IsJson(l) == l.lex \in {"number", "dquoted"}

parsed(l) == [k |-> l.k, v |-> l.v]

json_loads(text) ==
  IF /\ text.keys = "dquoted"
     /\ \A i \in 1..Len(text.rotation) : IsJson(text.rotation[i])
     /\ \A i \in 1..Len(text.center) : IsJson(text.center[i])
     /\ IsJson(text.locked)
  THEN Ok([ transform |->
              [rotation |-> [i \in 1..Len(text.rotation) |-> parsed(text.rotation[i])],
               center |-> [i \in 1..Len(text.center) |-> parsed(text.center[i])]],
            locked |-> parsed(text.locked) ])
  ELSE Raise("JSONDecodeError")

\* [float(i) for i in xs]
float_list(xs) ==
  IF AllFloat(xs) THEN Ok([i \in 1..Len(xs) |-> float(xs[i]).val])
  ELSE Raise("ValueError")

\* A mutation of the matrix layout: rotation laid out column-major.
rototranslation_colmajor(rotation, transform) ==
  << <<rotation[1], rotation[4], rotation[7], transform[1]>>,
     <<rotation[2], rotation[5], rotation[8], transform[2]>>,
     <<rotation[3], rotation[6], rotation[9], transform[3]>>,
     <<0, 0, 0, 1>> >>

\* lines 88-93, for lists long enough
rototranslation(rotation, transform) ==
  << <<rotation[1], rotation[2], rotation[3], transform[1]>>,
     <<rotation[4], rotation[5], rotation[6], transform[2]>>,
     <<rotation[7], rotation[8], rotation[9], transform[3]>>,
     <<0, 0, 0, 1>> >>

prepare_rototranslation(original) ==
  LET data == json_loads(replace(str(original.pose)))
      rotation == IF data.ok THEN float_list(data.val.transform.rotation) ELSE data
      transform == IF data.ok THEN float_list(data.val.transform.center) ELSE data
  IN  IF ~data.ok THEN data
      ELSE IF ~rotation.ok THEN rotation
      ELSE IF ~transform.ok THEN transform
      ELSE IF Len(rotation.val) < 9 \/ Len(transform.val) < 3 THEN Raise("IndexError")
      ELSE Ok(rototranslation(rotation.val, transform.val))

(* ----------------------- convert_sfm_to_parquet ------------------------ *)
\* A local name not assigned yet / a file not written yet.
Unbound == [bound |-> FALSE, items |-> <<>>]
NotWritten == [written |-> FALSE, rows |-> <<>>]
NoFiles == [point_cloud |-> NotWritten, train |-> NotWritten, val |-> NotWritten]
NoCall == [fn |-> "none", status |-> "idle", arg |-> <<>>, ret |-> Raise("none")]

Init ==
  /\ sfm \in Documents
  /\ pc = [r \in Runs |-> "line98"]
  /\ error = [r \in Runs |-> "none"]
  /\ trace = [r \in Runs |-> <<>>]
  /\ pd_structure = [r \in Runs |-> NoFrame]
  /\ images = [r \in Runs |-> NoFrame]
  /\ poses = [r \in Runs |-> NoFrame]
  /\ intrinsic = [r \in Runs |-> NoFrame]
  /\ list_images = [r \in Runs |-> Unbound]
  /\ train = [r \in Runs |-> Unbound]
  /\ val = [r \in Runs |-> Unbound]
  /\ files = [r \in Runs |-> NoFiles]
  /\ call = NoCall

\* line 98: pd_structure, images, poses, intrinsic = extrapolate_json('sfm.json');
\* an exception ends the run.
Line98(r) ==
  /\ pc[r] = "line98"
  /\ LET t == extrapolate_json(sfm) IN
       IF t.ok
       THEN /\ pd_structure' = [pd_structure EXCEPT ![r] = t.val.structure]
            /\ images' = [images EXCEPT ![r] = t.val.views]
            /\ poses' = [poses EXCEPT ![r] = t.val.poses]
            /\ intrinsic' = [intrinsic EXCEPT ![r] = t.val.intrinsics]
            /\ trace' = [trace EXCEPT ![r] = Append(@, "extrapolate_json")]
            /\ pc' = [pc EXCEPT ![r] = "line101"]
            /\ UNCHANGED error
       ELSE /\ error' = [error EXCEPT ![r] = t.err]
            /\ pc' = [pc EXCEPT ![r] = "raised"]
            /\ UNCHANGED <<pd_structure, images, poses, intrinsic, trace>>
  /\ UNCHANGED <<sfm, list_images, train, val, files, call>>

\* lines 101-102: the point-cloud frame is built from pd_structure["X"] and
\* written with to_parquet.  pd_structure carries the labels "x", "y", "z"
\* (line 31), so the lookup of "X" raises KeyError and the run ends here;
\* the statements from line 105 on are never executed (NeverPastLine101).
Line101(r) ==
  /\ pc[r] = "line101"
  /\ LET column == getitem(pd_structure[r], "X") IN
       IF column.ok
       THEN /\ files' = [files EXCEPT ![r].point_cloud =
                           [written |-> TRUE, rows |-> column.val]]
            /\ trace' = [trace EXCEPT ![r] = Append(@, "point_cloud.parquet")]
            /\ pc' = [pc EXCEPT ![r] = "line105"]
            /\ UNCHANGED error
       ELSE /\ error' = [error EXCEPT ![r] = column.err]
            /\ pc' = [pc EXCEPT ![r] = "raised"]
            /\ UNCHANGED <<files, trace>>
  /\ UNCHANGED <<sfm, pd_structure, images, poses, intrinsic, list_images, train, val, call>>

Next == \E r \in Runs : Line98(r) \/ Line101(r)

Spec == Init /\ [][Next]_vars

(* ------------------------- calls of the builders ---------------------- *)
PrincipalPointSamples ==
  { <<>>, << <<Num(100), Num(50)>> >>, << <<NumStr(90), NumStr(40)>> >>,
    << <<Num(100)>> >>, << <<Num(100), Text(0)>> >>,
    << <<Num(1), Num(2)>>, <<Num(3), Num(4)>> >> }

FocalLengthSamples ==
  { <<>>, <<Num(800)>>, <<NumStr(700)>>, <<Text(0)>>, <<Num(800), Num(900)>> }

IntrinsicRecords ==
  [principalPoint : PrincipalPointSamples, focalLength : FocalLengthSamples]

PoseRows == [poseId : {1}, pose : PoseValues]

Pending(fn, arg) == [fn |-> fn, status |-> "pending", arg |-> arg, ret |-> Raise("none")]

Returned(c, r) == [c EXCEPT !.status = IF r.ok THEN "returned" ELSE "raised", !.ret = r]

FnInit ==
  /\ sfm = [structure |-> <<>>, views |-> <<>>, poses |-> <<>>, intrinsics |-> <<I1>>]
  /\ pc = [r \in Runs |-> "line98"]
  /\ error = [r \in Runs |-> "none"]
  /\ trace = [r \in Runs |-> <<>>]
  /\ pd_structure = [r \in Runs |-> NoFrame]
  /\ images = [r \in Runs |-> NoFrame]
  /\ poses = [r \in Runs |-> NoFrame]
  /\ intrinsic = [r \in Runs |-> NoFrame]
  /\ list_images = [r \in Runs |-> Unbound]
  /\ train = [r \in Runs |-> Unbound]
  /\ val = [r \in Runs |-> Unbound]
  /\ files = [r \in Runs |-> NoFiles]
  /\ call \in {Pending("prepare_rototranslation", a) : a \in PoseRows}
                \cup {Pending("prepare_intrinsic", a) : a \in IntrinsicRecords}

CallRototranslation ==
  /\ call.fn = "prepare_rototranslation"
  /\ call.status = "pending"
  /\ call' = Returned(call, prepare_rototranslation(call.arg))
  /\ UNCHANGED <<sfm, pc, error, trace, pd_structure, images, poses, intrinsic,
                 list_images, train, val, files>>

CallIntrinsic ==
  /\ call.fn = "prepare_intrinsic"
  /\ call.status = "pending"
  /\ call' = Returned(call, prepare_intrinsic(call.arg))
  /\ UNCHANGED <<sfm, pc, error, trace, pd_structure, images, poses, intrinsic,
                 list_images, train, val, files>>

FnNext == CallRototranslation \/ CallIntrinsic

FnSpec == FnInit /\ [][FnNext]_vars

(* ============================ properties ============================== *)
Terminated(r) == pc[r] \in {"raised", "returned"}

LoaderReturned(r) == Len(trace[r]) >= 1 /\ trace[r][1] = "extrapolate_json"

Numeric(seq) == \A i \in 1..Len(seq) : seq[i].k \in {"num", "numstr"}

ViewIds == {sfm.views[i].poseId : i \in 1..Len(sfm.views)}

ViewsOf(id) == SelectSeq(sfm.views, LAMBDA v : v.poseId = id)

DuplicateIds == {id \in ViewIds : Len(ViewsOf(id)) >= 2}

\* The document is one the spec calls valid: numeric points, at least one
\* view, one view per poseId, every pose's poseId among the views.
ValidInput ==
  /\ \A i \in 1..Len(sfm.structure) : Numeric(sfm.structure[i].X)
  /\ sfm.views # <<>>
  /\ DuplicateIds = {}
  /\ \A k \in 1..Len(sfm.poses) : sfm.poses[k].poseId \in ViewIds

\* The statements after line 101 are never reached, whatever the document.
NeverPastLine101 == \A r \in Runs : pc[r] \in {"line98", "line101", "raised"}

\* No run ever writes a file or binds list_images, train or val.
NothingWritten ==
  \A r \in Runs : files[r] = NoFiles /\ list_images[r] = Unbound
                  /\ train[r] = Unbound /\ val[r] = Unbound

\* C1 (as claimed): a run on a valid document writes a point-cloud file with
\* one row per element of structure, row i being the X of element i as floats.
C1_RoundTripOfStructure ==
  \A r \in Runs :
    (Terminated(r) /\ ValidInput) =>
      /\ files[r].point_cloud.written
      /\ Len(files[r].point_cloud.rows) = Len(sfm.structure)
      /\ \A i \in 1..Len(sfm.structure) :
           files[r].point_cloud.rows[i] =
             [j \in 1..3 |-> sfm.structure[i].X[j].v]

Paths(items) == {items[i].image_path : i \in 1..Len(items)}

\* C2 (as claimed): after a run on a valid document with poses train and val together
\* hold every pose's record once: the lengths add up to len(poses), no record
\* is in both, and their image paths are those of all assembled records.
C2_SplitCompleteness ==
  \A r \in Runs :
    (Terminated(r) /\ ValidInput /\ sfm.poses # <<>>) =>
      /\ train[r].bound /\ val[r].bound /\ list_images[r].bound
      /\ Len(train[r].items) + Len(val[r].items) = Len(sfm.poses)
      /\ \A i \in 1..Len(train[r].items) : \A j \in 1..Len(val[r].items) :
           train[r].items[i] # val[r].items[j]
      /\ Paths(train[r].items) \cup Paths(val[r].items) = Paths(list_images[r].items)

\* C3 (as claimed): a run on a valid document with n poses (n = 0 included)
\* completes the split with len(train) = floor(0.8 n) and len(val) = n - len(train).
C3_SplitRatio ==
  \A r \in Runs :
    (Terminated(r) /\ ValidInput) =>
      /\ train[r].bound /\ val[r].bound
      /\ Len(train[r].items) = (4 * Len(sfm.poses)) \div 5
      /\ Len(val[r].items) = Len(sfm.poses) - (4 * Len(sfm.poses)) \div 5

\* The Loader accepts the document and some pose's poseId has no view.
LookupFails ==
  /\ \A i \in 1..Len(sfm.structure) : Numeric(sfm.structure[i].X)
  /\ sfm.views # <<>>
  /\ \E k \in 1..Len(sfm.poses) : sfm.poses[k].poseId \notin ViewIds

\* C4 (as claimed): a run in which a pose's poseId is absent from the view
\* table ends with the point-cloud file written and neither JSON file written.
C4_PartialOutputOnFailure ==
  \A r \in Runs :
    (pc[r] = "raised" /\ LookupFails) =>
      /\ files[r].point_cloud.written
      /\ ~files[r].train.written
      /\ ~files[r].val.written

ViewRow(v) == [path |-> v.path, height |-> v.height, width |-> v.width]

\* The Loader's input has views sharing a poseId and is otherwise accepted.
DuplicateKeys ==
  /\ \A i \in 1..Len(sfm.structure) : Numeric(sfm.structure[i].X)
  /\ DuplicateIds # {}

\* C5 (as claimed): with views sharing a poseId the Loader succeeds and the
\* later row has replaced the earlier one: the lookup of that poseId gives
\* exactly one row, the last view's.
C5_DuplicateKeysOverwrite ==
  \A r \in Runs :
    (pc[r] # "line98" /\ DuplicateKeys) =>
      /\ LoaderReturned(r)
      /\ \A id \in DuplicateIds :
           /\ loc(images[r], id).kind = "Series"
           /\ loc(images[r], id).rows = <<ViewRow(ViewsOf(id)[Len(ViewsOf(id))])>>

\* C5 (amended): with views sharing a poseId the Loader succeeds and the view
\* table keeps one row per element of views, in order; the lookup of a shared
\* poseId gives every row with that poseId (two or more, as a frame), in
\* source order, not one row.
C5_DuplicateKeysKept ==
  \A r \in Runs :
    (pc[r] # "line98" /\ DuplicateKeys) =>
      /\ LoaderReturned(r)
      /\ Len(images[r].rows) = Len(sfm.views)
      /\ \A id \in DuplicateIds :
           /\ loc(images[r], id).kind = "DataFrame"
           /\ Len(loc(images[r], id).rows) >= 2
           /\ loc(images[r], id).rows =
                [i \in 1..Len(ViewsOf(id)) |-> ViewRow(ViewsOf(id)[i])]

C5_Witness ==
  \E r \in Runs : pc[r] # "line98" /\ DuplicateKeys /\ LoaderReturned(r)

(* ---- prepare_rototranslation, under FnSpec ---- *)
PoseCall == call.fn = "prepare_rototranslation" /\ call.status # "pending"

Rotation == call.arg.pose.transform.rotation
Center == call.arg.pose.transform.center

\* The result is the 4x4 matrix of the first 9 rotation values, row-major,
\* the center in the last column and [0,0,0,1] in the last row.
IsPoseMatrix(m) ==
  /\ Len(m) = 4
  /\ \A r \in 1..4 : Len(m[r]) = 4
  /\ m[4] = <<0, 0, 0, 1>>
  /\ \A r \in 0..2 :
       /\ \A c \in 0..2 : m[r + 1][c + 1] = Rotation[3 * r + c + 1].v
       /\ m[r + 1][4] = Center[r + 1].v

\* The pose's text survives str(), the quote replacement and json.loads: it
\* holds no value (such as a JSON true) whose Python text is not JSON.
TextParses == call.arg.pose.locked.k # "bool"

\* C6 (as claimed): whenever rotation has at least 9 (numeric) values and
\* center at least 3, the call returns the matrix; with fewer it fails.
C6_PoseMatrixOriginal ==
  PoseCall =>
    IF Len(Rotation) >= 9 /\ Len(Center) >= 3
    THEN (Numeric(Rotation) /\ Numeric(Center)) =>
           (call.status = "returned" /\ IsPoseMatrix(call.ret.val))
    ELSE call.status = "raised"

\* C6 (amended): when the pose's text survives the normalisation and parse,
\* all rotation and center values are numeric, rotation has at least 9 values
\* and center at least 3, the call returns the matrix (last row [0,0,0,1],
\* entry [r][c] = rotation[3r+c], last column center[0..2]); otherwise (fewer
\* values, a non-numeric value, or text that does not parse) it fails.
C6_PoseMatrix ==
  PoseCall =>
    IF /\ TextParses /\ Numeric(Rotation) /\ Numeric(Center)
       /\ Len(Rotation) >= 9 /\ Len(Center) >= 3
    THEN call.status = "returned" /\ IsPoseMatrix(call.ret.val)
    ELSE call.status = "raised"

C6_Witness ==
  /\ PoseCall /\ call.status = "returned"
  /\ Len(Rotation) > 9 /\ Len(Center) > 3

\* The 3x3 matrix [[f,0,cx],[0,f,cy],[0,0,1]] of an intrinsic record.
IntrinsicMatrix(rec) ==
  << <<rec.focalLength[1].v, 0, rec.principalPoint[1][1].v>>,
     <<0, rec.focalLength[1].v, rec.principalPoint[1][2].v>>,
     <<0, 0, 1>> >>

\* C7 (as claimed): the Intrinsic Builder maps a record [[cx,cy]], [f] to
\* [[f,0,cx],[0,f,cy],[0,0,1]], and a run on a valid document with poses gives every
\* pose an output image record whose camera_intrinsics is that matrix of
\* intrinsic record index 0.
C7_IntrinsicMatrix ==
  /\ \A rec \in {I1, I2} : prepare_intrinsic(rec) = Ok(IntrinsicMatrix(rec))
  /\ \A r \in Runs :
       (Terminated(r) /\ ValidInput /\ sfm.poses # <<>>) =>
         /\ list_images[r].bound
         /\ Len(list_images[r].items) = Len(sfm.poses)
         /\ \A k \in 1..Len(list_images[r].items) :
              list_images[r].items[k].camera_intrinsics =
                IntrinsicMatrix(sfm.intrinsics[1])

\* C8 (as claimed): two runs on the same valid document with the same shuffle
\* permutation produce the same train and val lists, in the same order.
C8_DeterminismModuloShuffle ==
  \A r1, r2 \in Runs :
    (Terminated(r1) /\ Terminated(r2) /\ ValidInput /\ sfm.poses # <<>>) =>
      /\ train[r1].bound /\ val[r1].bound
      /\ files[r1].train.written /\ files[r1].val.written
      /\ train[r1] = train[r2] /\ val[r1] = val[r2]
      /\ files[r1].train = files[r2].train /\ files[r1].val = files[r2].val

\* C9 (as claimed): on a valid document with poses the assembled list has one record per
\* pose, in pose-table order, the k-th with the path, height and width of the
\* view of the k-th pose's poseId, the k-th pose's transform and camera_id 0.
C9_AssemblerOutput ==
  \A r \in Runs :
    (Terminated(r) /\ ValidInput /\ sfm.poses # <<>>) =>
      /\ list_images[r].bound
      /\ Len(list_images[r].items) = Len(sfm.poses)
      /\ \A k \in 1..Len(list_images[r].items) :
           LET rec == list_images[r].items[k]
               view == ViewsOf(sfm.poses[k].poseId)[1]
               t == sfm.poses[k].pose.transform
           IN  /\ rec.image_path = view.path
               /\ rec.camera_height = view.height.v
               /\ rec.camera_width = view.width.v
               /\ rec.camera_id = 0
               /\ rec.T_pointcloud_camera =
                    << <<t.rotation[1].v, t.rotation[2].v, t.rotation[3].v, t.center[1].v>>,
                       <<t.rotation[4].v, t.rotation[5].v, t.rotation[6].v, t.center[2].v>>,
                       <<t.rotation[7].v, t.rotation[8].v, t.rotation[9].v, t.center[3].v>>,
                       <<0, 0, 0, 1>> >>

\* C10 (as claimed): every run on a valid document performs, in this order,
\* the Loader, the assembly of every pose's record, and then the three writes
\* point_cloud.parquet, train.json, val.json, no write before the assembly.
C10_PipelineOrdering ==
  \A r \in Runs :
    (Terminated(r) /\ ValidInput) =>
      trace[r] = <<"extrapolate_json", "list_images",
                   "point_cloud.parquet", "train.json", "val.json">>

====
